---- MODULE Spec2Model ----
(***************************************************************************)
(* State-machine model of src/resnet/train.py: predict_in_batches() and    *)
(* train().  One run of train() is modelled from the point where the data  *)
(* provider, the model and the optimizer have been constructed (line 62)   *)
(* to normal return ("done") or to the first uncaught exception ("error"). *)
(* Tensors are sequences of integers; the model's parameters are           *)
(* abstracted to the number of optimizer steps applied to them.            *)
(***************************************************************************)
EXTENDS Integers, Sequences, FiniteSets, TLC

\* ---------------------------------------------------------------- bounds
MaxEpochs  == 7   \* largest config.num_epochs explored
MaxN       == 3   \* largest split size (train_images.shape[0], test_images.shape[0])
MaxB       == 2   \* largest config.train_batch_size / config.test_batch_size
MaxBatches == 2   \* largest number of mini-batches train_loader yields per epoch

VARIABLES
  num_epochs,        \* config.num_epochs
  train_batch_size,  \* config.train_batch_size
  test_batch_size,   \* config.test_batch_size
  nTrain,            \* train_images.shape[0]
  nTest,             \* test_images.shape[0]
  nBatches,          \* len(train_loader)
  provided,          \* (mean, std) as returned by get_raw_split()
  pc,                \* position of train() in its body
  err,               \* the uncaught exception, "" when none
  epoch,             \* loop variable of line 65
  batchIdx,          \* mini-batches of the current epoch already consumed
  training,          \* model.training
  params,            \* model parameters: number of optimizer steps applied
  mean_val, std_val, \* the locals of train()
  bound,             \* which of train_preds / test_preds are assigned
  train_preds, test_preds,
  images,            \* predict_in_batches: which split the call iterates
  i,                 \* predict_in_batches: loop variable of line 33
  preds,             \* predict_in_batches: list of per-batch outputs
  slices,            \* history: <<first, last>> index of every batch given to the model
  entryMode,         \* history: model.training when predict_in_batches was entered
  evalLog,           \* console: one metrics line per evaluation
  report,            \* predictions_vs_actual_col{target}.xlsx
  modelDir,          \* config.model_dir exists
  checkpoint         \* {model_dir}/model{target}.pth

vars == <<num_epochs, train_batch_size, test_batch_size, nTrain, nTest, nBatches,
          provided, pc, err, epoch, batchIdx, training, params, mean_val, std_val,
          bound, train_preds, test_preds, images, i, preds, slices, entryMode,
          evalLog, report, modelDir, checkpoint>>

cfgVars  == <<num_epochs, train_batch_size, test_batch_size, nTrain, nTest, nBatches, provided>>
callVars == <<images, i, preds, slices, entryMode>>
fileVars == <<report, modelDir, checkpoint>>

\* ---------------------------------------------------------------- helpers
Min(a, b) == IF a < b THEN a ELSE b

RECURSIVE Flatten(_)
\* np.vstack(preds) followed by .flatten(): the per-batch arrays end to end
Flatten(list) == IF list = <<>> THEN <<>> ELSE Head(list) \o Flatten(Tail(list))

\* ---------------------------------------------------------------- data provider
\* get_raw_split(): the full splits.  Sample k of a split is identified by its
\* position; images and normalized labels are distinct per sample.
TrainImages(n) == [k \in 1..n |-> k]
TestImages(n)  == [k \in 1..n |-> 10 + k]
TrainLabels(n) == [k \in 1..n |-> 2 * k + 1]
TestLabels(n)  == [k \in 1..n |-> 5 - k]

\* mean/std come back as a 0-d tensor, a numpy scalar or a plain number
Stats == { [mean |-> [kind |-> "tensor", v |-> 4], std |-> [kind |-> "tensor", v |-> 3]],
           [mean |-> [kind |-> "int",    v |-> 2], std |-> [kind |-> "numpy",  v |-> 5]] }

\* ---------------------------------------------------------------- model
\* ResNet_Model.__call__: one output per image of the batch.  In evaluation
\* mode the output of an image depends on the image and the parameters only;
\* in training mode batch statistics enter it.
Forward(p, isTraining, batch) ==
  [k \in 1..Len(batch) |-> 3 * batch[k] + 2 * p + (IF isTraining THEN Len(batch) ELSE 0)]

\* model.eval() / model.train(): the new value of model.training
ModelEval_noop(t) == t
ModelEval(t) == FALSE

ModelTrain_noop(t) == t
ModelTrain(t) == TRUE

\* ---------------------------------------------------------------- predict_in_batches
BatchSizeOf(which) == IF which = "train" THEN train_batch_size ELSE test_batch_size
SizeOf(which)      == IF which = "train" THEN nTrain ELSE nTest
ImagesOf(which)    == IF which = "train" THEN TrainImages(nTrain) ELSE TestImages(nTest)

\* range(0, N, batch_size): the index after i
NextIndex_skip(j, b) == j + b + 1
NextIndex(j, b) == j + b

\* images[i:i+batch_size]: 0-based half-open slice, clipped at the end
SliceBounds(j, b, n) == <<j + 1, Min(j + b, n)>>
Slice(imgs, j, b) == SubSeq(imgs, SliceBounds(j, b, Len(imgs))[1], SliceBounds(j, b, Len(imgs))[2])

\* ---------------------------------------------------------------- train helpers
\* line 76
ShouldEvaluate_mod5only(e, n) == e % 5 = 0
ShouldEvaluate_lastonly(e, n) == e = n - 1
ShouldEvaluate(e, n) == e % 5 = 0 \/ e = n - 1

\* lines 89-90: x.item() if hasattr(x, 'item') else float(x)
HasItem(x) == x.kind \in {"tensor", "numpy"}
ToFloat(x) == IF HasItem(x) THEN [kind |-> "float", v |-> x.v]
                            ELSE [kind |-> "float", v |-> x.v]

\* lines 92-95: value * std_val + mean_val, elementwise
Denormalize_swapped(arr, s, m) == [k \in 1..Len(arr) |-> arr[k] * m + s]
Denormalize(arr, s, m) == [k \in 1..Len(arr) |-> arr[k] * s + m]

\* lines 102-110: DataFrame({"True": ..., "Predicted": ...}), index=False
Sheet_reversed(trueCol, predCol) ==
  [k \in 1..Len(trueCol) |-> [True |-> trueCol[k], Predicted |-> predCol[Len(predCol) + 1 - k]]]
Sheet(trueCol, predCol) ==
  [k \in 1..Len(trueCol) |-> [True |-> trueCol[k], Predicted |-> predCol[k]]]

\* the order of the steps after the training loop (lines 88-121)
Following_saveFirst(step) ==
  CASE step = "denorm"       -> "makedirs"
    [] step = "makedirs"     -> "save"
    [] step = "save"         -> "write_report"
    [] step = "write_report" -> "done"
Following(step) ==
  CASE step = "denorm"       -> "write_report"
    [] step = "write_report" -> "makedirs"
    [] step = "makedirs"     -> "save"
    [] step = "save"         -> "done"

NoFile    == [state |-> "absent"]
StaleFile == [state |-> "stale"]
PartFile  == [state |-> "partial"]

\* ---------------------------------------------------------------- initial states
EpochCounts == -1..MaxEpochs

Init ==
  /\ num_epochs \in EpochCounts
  /\ train_batch_size \in 1..MaxB
  /\ test_batch_size \in 1..MaxB
  /\ nTrain \in 0..MaxN
  /\ nTest \in 0..MaxN
  /\ nBatches \in 0..Min(nTrain, MaxBatches)
  /\ provided \in Stats
  /\ pc = "for_epoch"
  /\ err = ""
  /\ epoch = 0
  /\ batchIdx = 0
  /\ training = TRUE
  /\ params = 0
  /\ mean_val = provided.mean
  /\ std_val = provided.std
  /\ bound = {}
  /\ train_preds = <<>>
  /\ test_preds = <<>>
  /\ images = "none"
  /\ i = 0
  /\ preds = <<>>
  /\ slices = <<>>
  /\ entryMode = TRUE
  /\ evalLog = <<>>
  /\ \/ report = NoFile /\ modelDir = FALSE /\ checkpoint = NoFile
     \/ report = StaleFile /\ modelDir = TRUE /\ checkpoint = StaleFile

\* ---------------------------------------------------------------- training loop
\* lines 65-66
EpochBegin ==
  /\ pc = "for_epoch"
  /\ epoch < num_epochs
  /\ training' = ModelTrain(training)
  /\ batchIdx' = 0
  /\ pc' = "for_batch"
  /\ UNCHANGED <<cfgVars, err, epoch, params, mean_val, std_val, bound, train_preds,
                 test_preds, callVars, evalLog, fileVars>>

\* lines 67-73: one mini-batch, one optimizer.step()
TrainBatch ==
  /\ pc = "for_batch"
  /\ batchIdx < nBatches
  /\ params' = params + 1
  /\ batchIdx' = batchIdx + 1
  /\ UNCHANGED <<cfgVars, pc, err, epoch, training, mean_val, std_val, bound, train_preds,
                 test_preds, callVars, evalLog, fileVars>>

\* line 76, taken
BeginEvaluation ==
  /\ pc = "for_batch"
  /\ batchIdx >= nBatches
  /\ ShouldEvaluate(epoch, num_epochs)
  /\ pc' = "call_train"
  /\ UNCHANGED <<cfgVars, err, epoch, batchIdx, training, params, mean_val, std_val, bound,
                 train_preds, test_preds, callVars, evalLog, fileVars>>

\* line 76, not taken: next epoch
SkipEvaluation ==
  /\ pc = "for_batch"
  /\ batchIdx >= nBatches
  /\ ~ShouldEvaluate(epoch, num_epochs)
  /\ epoch' = epoch + 1
  /\ pc' = "for_epoch"
  /\ UNCHANGED <<cfgVars, err, batchIdx, training, params, mean_val, std_val, bound,
                 train_preds, test_preds, callVars, evalLog, fileVars>>

\* ---------------------------------------------------------------- predict_in_batches
\* lines 77/78 call, lines 29-30
PredictEnter ==
  /\ pc \in {"call_train", "call_test"}
  /\ images' = (IF pc = "call_train" THEN "train" ELSE "test")
  /\ entryMode' = training
  /\ training' = ModelEval(training)
  /\ preds' = <<>>
  /\ slices' = <<>>
  /\ i' = 0
  /\ pc' = "predict_loop"
  /\ UNCHANGED <<cfgVars, err, epoch, batchIdx, params, mean_val, std_val, bound,
                 train_preds, test_preds, evalLog, fileVars>>

\* lines 33-36: one iteration
PredictBatch ==
  /\ pc = "predict_loop"
  /\ i < SizeOf(images)
  /\ LET batch == Slice(ImagesOf(images), i, BatchSizeOf(images))
         pred  == Forward(params, training, batch)
     IN /\ preds' = Append(preds, pred)
        /\ slices' = Append(slices, SliceBounds(i, BatchSizeOf(images), SizeOf(images)))
  /\ i' = NextIndex(i, BatchSizeOf(images))
  /\ UNCHANGED <<cfgVars, pc, err, epoch, batchIdx, training, params, mean_val, std_val,
                 bound, train_preds, test_preds, images, entryMode, evalLog, fileVars>>

\* line 38 with at least one batch: np.vstack(preds), assigned at line 77/78
PredictReturn ==
  /\ pc = "predict_loop"
  /\ i >= SizeOf(images)
  /\ preds # <<>>
  /\ IF images = "train"
       THEN /\ train_preds' = Flatten(preds)
            /\ bound' = bound \cup {"train_preds"}
            /\ pc' = "call_test"
            /\ UNCHANGED test_preds
       ELSE /\ test_preds' = Flatten(preds)
            /\ bound' = bound \cup {"test_preds"}
            /\ pc' = "metrics"
            /\ UNCHANGED train_preds
  /\ UNCHANGED <<cfgVars, err, epoch, batchIdx, training, params, mean_val, std_val,
                 callVars, evalLog, fileVars>>

\* line 38 with no batch: np.vstack([]) raises ValueError
PredictRaise ==
  /\ pc = "predict_loop"
  /\ i >= SizeOf(images)
  /\ preds = <<>>
  /\ pc' = "error"
  /\ err' = "ValueError"
  /\ UNCHANGED <<cfgVars, epoch, batchIdx, training, params, mean_val, std_val, bound,
                 train_preds, test_preds, callVars, evalLog, fileVars>>

\* lines 80-86: metrics and one log line, then the next epoch
Metrics ==
  /\ pc = "metrics"
  /\ evalLog' = Append(evalLog, [epoch |-> epoch, steps |-> params])
  /\ epoch' = epoch + 1
  /\ pc' = "for_epoch"
  /\ UNCHANGED <<cfgVars, err, batchIdx, training, params, mean_val, std_val, bound,
                 train_preds, test_preds, callVars, fileVars>>

\* ---------------------------------------------------------------- reporting
\* line 65, range exhausted
LoopExit ==
  /\ pc = "for_epoch"
  /\ epoch >= num_epochs
  /\ pc' = "denorm"
  /\ UNCHANGED <<cfgVars, err, epoch, batchIdx, training, params, mean_val, std_val, bound,
                 train_preds, test_preds, callVars, evalLog, fileVars>>

\* lines 89-95 when train_preds and test_preds are assigned
Denorm ==
  /\ pc = "denorm"
  /\ {"train_preds", "test_preds"} \subseteq bound
  /\ std_val' = ToFloat(std_val)
  /\ mean_val' = ToFloat(mean_val)
  /\ pc' = Following("denorm")
  /\ UNCHANGED <<cfgVars, err, epoch, batchIdx, training, params, bound, train_preds,
                 test_preds, callVars, evalLog, fileVars>>

\* lines 89-92 when train_preds was never assigned: UnboundLocalError at line 92
DenormUnbound ==
  /\ pc = "denorm"
  /\ "train_preds" \notin bound
  /\ std_val' = ToFloat(std_val)
  /\ mean_val' = ToFloat(mean_val)
  /\ pc' = "error"
  /\ err' = "UnboundLocalError"
  /\ UNCHANGED <<cfgVars, epoch, batchIdx, training, params, bound, train_preds,
                 test_preds, callVars, evalLog, fileVars>>

\* lines 92-95 and 101-110
NewReport ==
  [state |-> "new",
   Train |-> Sheet(Denormalize(TrainLabels(nTrain), std_val.v, mean_val.v),
                   Denormalize(train_preds, std_val.v, mean_val.v)),
   Test  |-> Sheet(Denormalize(TestLabels(nTest), std_val.v, mean_val.v),
                   Denormalize(test_preds, std_val.v, mean_val.v))]

WriteReport ==
  /\ pc = "write_report"
  /\ report' = NewReport
  /\ pc' = Following("write_report")
  /\ UNCHANGED <<cfgVars, err, epoch, batchIdx, training, params, mean_val, std_val, bound,
                 train_preds, test_preds, callVars, evalLog, modelDir, checkpoint>>

\* lines 101-110 raising an I/O error: the file is untouched or truncated
WriteReportFail ==
  /\ pc = "write_report"
  /\ report' \in {report, PartFile}
  /\ pc' = "error"
  /\ err' = "OSError"
  /\ UNCHANGED <<cfgVars, epoch, batchIdx, training, params, mean_val, std_val, bound,
                 train_preds, test_preds, callVars, evalLog, modelDir, checkpoint>>

\* line 113
MakeDirs ==
  /\ pc = "makedirs"
  /\ modelDir' = TRUE
  /\ pc' = Following("makedirs")
  /\ UNCHANGED <<cfgVars, err, epoch, batchIdx, training, params, mean_val, std_val, bound,
                 train_preds, test_preds, callVars, evalLog, report, checkpoint>>

\* line 113 raising (permission denied, a file in the way)
MakeDirsFail ==
  /\ pc = "makedirs"
  /\ ~modelDir
  /\ pc' = "error"
  /\ err' = "OSError"
  /\ UNCHANGED <<cfgVars, epoch, batchIdx, training, params, mean_val, std_val, bound,
                 train_preds, test_preds, callVars, evalLog, fileVars>>

\* lines 114-119
NewCheckpoint ==
  [state |-> "new", model_state_dict |-> params, mean |-> mean_val, std |-> std_val]

SaveCheckpoint ==
  /\ pc = "save"
  /\ checkpoint' = NewCheckpoint
  /\ pc' = Following("save")
  /\ UNCHANGED <<cfgVars, err, epoch, batchIdx, training, params, mean_val, std_val, bound,
                 train_preds, test_preds, callVars, evalLog, report, modelDir>>

\* lines 115-119 raising an I/O error: the file is untouched or truncated
SaveCheckpointFail ==
  /\ pc = "save"
  /\ checkpoint' \in {checkpoint, PartFile}
  /\ pc' = "error"
  /\ err' = "OSError"
  /\ UNCHANGED <<cfgVars, epoch, batchIdx, training, params, mean_val, std_val, bound,
                 train_preds, test_preds, callVars, evalLog, report, modelDir>>

Next ==
  \/ EpochBegin
  \/ TrainBatch
  \/ BeginEvaluation
  \/ SkipEvaluation
  \/ PredictEnter
  \/ PredictBatch
  \/ PredictReturn
  \/ PredictRaise
  \/ Metrics
  \/ LoopExit
  \/ Denorm
  \/ DenormUnbound
  \/ WriteReport
  \/ WriteReportFail
  \/ MakeDirs
  \/ MakeDirsFail
  \/ SaveCheckpoint
  \/ SaveCheckpointFail

Spec == Init /\ [][Next]_vars

\* Every step is always enabled until train() returns or raises, and the
\* interpreter runs the single thread to its end: weak fairness on Next.
FairSpec == Spec /\ WF_vars(Next)

\* ---------------------------------------------------------------- properties
Halted       == pc \in {"done", "error"}
JustReturned == pc \in {"call_test", "metrics"}   \* predict_in_batches has just returned
InPredict    == pc = "predict_loop"
AfterLoop    == pc \in {"denorm", "write_report", "makedirs", "save", "done"}
CeilDiv(n, b) == (n + b - 1) \div b
Last(s) == s[Len(s)]
\* what the model in evaluation mode yields on a whole split at once
WholeTrain(p) == Forward(p, FALSE, TrainImages(nTrain))
WholeTest(p)  == Forward(p, FALSE, TestImages(nTest))

\* C1: for every B >= 1 and N >= 0 predict_in_batches returns N outputs, in
\* input order, equal to the model's output on the whole input at once, and
\* for N = 0 it returns an empty output instead of raising.
C1_BatchedEqualsWhole ==
  /\ err # "ValueError"
  /\ pc = "call_test" => train_preds = WholeTrain(params)
  /\ pc = "metrics" => test_preds = WholeTest(params)

\* C1 (N >= 1 part, which the code does satisfy): a call that returns yields
\* the whole-input output, one value per input, in input order.
C1_NonEmptyBatchedEqualsWhole ==
  /\ pc = "call_test" => (nTrain >= 1 /\ train_preds = WholeTrain(params))
  /\ pc = "metrics" => (nTest >= 1 /\ test_preds = WholeTest(params))

\* C2: with N >= 1 the model is invoked ceil(N/B) times, each time on a
\* contiguous slice of 1..B inputs; slices come in increasing index order,
\* do not overlap, cover every index exactly once, and only the last may be
\* shorter than B.
C2_SlicesPartitionInput ==
  LET n == SizeOf(images)
      b == BatchSizeOf(images)
  IN /\ (InPredict \/ JustReturned) =>
          /\ Len(preds) = Len(slices)
          /\ \A k \in 1..Len(slices) :
               /\ slices[k][2] - slices[k][1] + 1 \in 1..b
               /\ Len(preds[k]) = slices[k][2] - slices[k][1] + 1
               /\ slices[k][1] = (IF k = 1 THEN 1 ELSE slices[k - 1][2] + 1)
               /\ slices[k][2] <= n
               /\ k < Len(slices) => slices[k][2] - slices[k][1] + 1 = b
     /\ JustReturned =>
          /\ n >= 1
          /\ Len(slices) = CeilDiv(n, b)
          /\ Last(slices)[2] = n

C2_Witness ==
  /\ pc = "call_test"
  /\ nTrain = 3
  /\ train_batch_size = 2
  /\ slices = <<(<<1, 2>>), (<<3, 3>>)>>

\* C3: for num_epochs >= 1 and no error, train() terminates with report and
\* checkpoint written; the Train and Test sheets have one row per sample of
\* their split, row k pairing the true and the predicted value of sample k.
C3_DoneState ==
  pc = "done" =>
    /\ num_epochs >= 1
    /\ report.state = "new"
    /\ checkpoint.state = "new"
    /\ Len(report.Train) = nTrain
    /\ Len(report.Test) = nTest
    /\ \A k \in 1..nTrain :
         report.Train[k] =
           [True      |-> TrainLabels(nTrain)[k] * provided.std.v + provided.mean.v,
            Predicted |-> WholeTrain(params)[k] * provided.std.v + provided.mean.v]
    /\ \A k \in 1..nTest :
         report.Test[k] =
           [True      |-> TestLabels(nTest)[k] * provided.std.v + provided.mean.v,
            Predicted |-> WholeTest(params)[k] * provided.std.v + provided.mean.v]

C3_TerminatesWithReportAndCheckpoint ==
  /\ []C3_DoneState
  /\ <>Halted
  /\ [](pc = "error" => err # "")

C3_Witness ==
  /\ pc = "done"
  /\ nTrain = 3
  /\ nTest = 2
  /\ num_epochs >= 2

\* C4: with num_epochs <= 0 train() fails with an explicit error raised by a
\* guard on the missing evaluation snapshot, not with an unassigned-variable
\* reference error, and writes neither report nor checkpoint.
C4_ExplicitErrorWithoutEvaluation ==
  (num_epochs <= 0 /\ Halted) =>
    /\ pc = "error"
    /\ err # "UnboundLocalError"
    /\ report.state # "new"
    /\ checkpoint.state # "new"

\* C5 (as claimed): a run ends either with both a new report and a new
\* checkpoint or with neither newly written.
C5_AllOrNothing ==
  Halted =>
    \/ pc = "done" /\ report.state = "new" /\ checkpoint.state = "new"
    \/ report.state # "new" /\ checkpoint.state # "new"

\* C5 (amended): train() stops at the first failing step and undoes nothing:
\* a new checkpoint exists only together with a new report in a completed
\* run, a completed run has written both, and a run that fails after the
\* report was written (an I/O error creating the model directory or saving
\* the checkpoint) leaves the new report without a new checkpoint.
C5_ReportBeforeCheckpoint ==
  /\ checkpoint.state = "new" => (report.state = "new" /\ pc = "done")
  /\ pc = "done" => (report.state = "new" /\ checkpoint.state = "new")
  /\ (pc = "error" /\ report.state = "new") =>
       (err = "OSError" /\ checkpoint.state # "new")

C5_Witness ==
  /\ pc = "error"
  /\ report.state = "new"
  /\ checkpoint.state # "new"

\* C6: the (mean, std) pair of the data provider denormalizes all four
\* reported series via value * std + mean and is the pair stored in the
\* checkpoint; no other mean or std is used or persisted.
C6_OneStatisticsPair ==
  LET m == provided.mean.v
      s == provided.std.v
  IN /\ mean_val.v = m
     /\ std_val.v = s
     /\ report.state = "new" =>
          /\ \A k \in 1..Len(report.Train) :
               /\ report.Train[k].True = TrainLabels(nTrain)[k] * s + m
               /\ report.Train[k].Predicted = train_preds[k] * s + m
          /\ \A k \in 1..Len(report.Test) :
               /\ report.Test[k].True = TestLabels(nTest)[k] * s + m
               /\ report.Test[k].Predicted = test_preds[k] * s + m
     /\ checkpoint.state = "new" =>
          /\ checkpoint.mean.v = m
          /\ checkpoint.std.v = s

C6_Witness ==
  /\ pc = "done"
  /\ provided.mean.kind = "int"
  /\ provided.std.kind = "numpy"
  /\ Len(report.Train) >= 2
  /\ Len(report.Test) >= 1

\* C7: an evaluation pass with one log line runs after epoch e's mini-batches
\* iff e % 5 = 0 or e = num_epochs - 1; evaluations occur in increasing epoch
\* order, at most once per epoch, and only after all of that epoch's updates.
EvalEpochs(upTo) ==
  SelectSeq([k \in 1..upTo |-> k - 1], LAMBDA e : e % 5 = 0 \/ e = num_epochs - 1)

C7_EvaluationSchedule ==
  /\ LET done == EvalEpochs(epoch)
     IN /\ Len(evalLog) = Len(done)
        /\ \A k \in 1..Len(evalLog) :
             /\ evalLog[k].epoch = done[k]
             /\ evalLog[k].steps = (done[k] + 1) * nBatches
  /\ pc \in {"call_train", "predict_loop", "call_test", "metrics"} =>
       /\ epoch % 5 = 0 \/ epoch = num_epochs - 1
       /\ batchIdx = nBatches
       /\ params = (epoch + 1) * nBatches

C7_Witness ==
  /\ pc = "denorm"
  /\ num_epochs = 7
  /\ nBatches = 2
  /\ Len(evalLog) = 3
  /\ evalLog[2].epoch = 5
  /\ evalLog[3].epoch = 6

\* C8: predict_in_batches puts the model in evaluation mode before any
\* forward pass and never switches it back, whatever the mode at the call,
\* and changes no model parameter.
C8_PredictLeavesEvalMode ==
  /\ []((InPredict \/ JustReturned) => ~training)
  /\ [][(pc \in {"call_train", "call_test", "predict_loop"}) => params' = params]_vars

C8_Witness ==
  /\ pc = "call_test"
  /\ entryMode = TRUE
  /\ ~training
  /\ Len(preds) >= 2
  /\ params >= 1

\* C9: for num_epochs >= 1 no optimizer step lies between the last evaluation
\* and the writing of report and checkpoint: the reported predictions are
\* those of exactly the parameters saved in the checkpoint.
C9_ReportMatchesCheckpoint ==
  /\ (AfterLoop /\ num_epochs >= 1) =>
       /\ evalLog # <<>>
       /\ Last(evalLog).epoch = num_epochs - 1
       /\ Last(evalLog).steps = params
       /\ train_preds = WholeTrain(params)
       /\ test_preds = WholeTest(params)
  /\ pc = "done" =>
       /\ \A k \in 1..Len(report.Train) :
            report.Train[k].Predicted =
              Denormalize(WholeTrain(checkpoint.model_state_dict),
                          checkpoint.std.v, checkpoint.mean.v)[k]
       /\ \A k \in 1..Len(report.Test) :
            report.Test[k].Predicted =
              Denormalize(WholeTest(checkpoint.model_state_dict),
                          checkpoint.std.v, checkpoint.mean.v)[k]

C9_Witness ==
  /\ pc = "done"
  /\ num_epochs = 4
  /\ nBatches >= 1
  /\ Len(evalLog) = 2

\* C10: every optimizer step is taken in training mode and every evaluation
\* forward pass in evaluation mode, also in the epochs that follow an
\* evaluation.
C10_ModePerStep ==
  [][/\ params' # params => training
     /\ Len(preds') > Len(preds) => ~training]_vars

C10_Witness ==
  /\ pc = "for_batch"
  /\ training
  /\ batchIdx >= 1
  /\ epoch >= 1
  /\ Len(evalLog) >= 1

====
